---- MODULE Spec2Model ----
(***************************************************************************)
(* A model of scripts/plotResults.py: the command line entry point, the    *)
(* CSV load, the split into the INC-enabled and the traditional cohort and *)
(* the four chart functions, together with the part of the file system the *)
(* script reads and writes.                                                *)
(*                                                                         *)
(* Numbers.  CompNodes values and tick labels are integers.  The ticks of  *)
(* np.logspace are real numbers; a tick t is represented exactly by t^9,   *)
(* which is the integer min^(9-i) * max^i for the i-th of the ten ticks.   *)
(* These integers exceed the machine integers of the model checker, so     *)
(* they are kept as sequences of base-1000 limbs, least significant first. *)
(* The rounding of IEEE doubles is not represented: ticks are exact reals. *)
(***************************************************************************)
EXTENDS Integers, Sequences, FiniteSets, TLC

(***************************************************************************)
(* Bounds of the model.                                                    *)
(***************************************************************************)
MaxRows == 2
MaxArgs == 2
MaxRuns == 2

(***************************************************************************)
(* Input domains.                                                          *)
(***************************************************************************)
Paths == {"result.csv", "data.csv"}
CompNodeVals == {10, 1000}
IncVals == {0, 1, 2}

Columns ==
  {"CompNodes", "INC", "TimingCost", "BandwidthUsage_Msg",
   "BandwidthUsage_Byte", "ComplTimeDiff"}

\* a scalar of a numeric column: a number, or NaN (the reduction of no values)
NaN == [nan |-> TRUE, v |-> 0]
Num(n) == [nan |-> FALSE, v |-> n]

(***************************************************************************)
(* Exact arithmetic on naturals of any size (base-1000 limbs).             *)
(***************************************************************************)
RECURSIVE Big(_)
Big(n) == IF n < 1000 THEN <<n>> ELSE <<n % 1000>> \o Big(n \div 1000)

RECURSIVE MulSmall(_, _, _)
MulSmall(b, k, carry) ==
  IF b = <<>>
  THEN IF carry = 0 THEN <<>> ELSE Big(carry)
  ELSE LET v == Head(b) * k + carry
       IN  <<v % 1000>> \o MulSmall(Tail(b), k, v \div 1000)

RECURSIVE MulPow(_, _, _)
MulPow(b, k, e) == IF e = 0 THEN b ELSE MulPow(MulSmall(b, k, 0), k, e - 1)

RECURSIVE BigLeqFrom(_, _, _)
BigLeqFrom(a, b, i) ==
  IF i = 0 THEN TRUE
  ELSE IF a[i] # b[i] THEN a[i] < b[i]
  ELSE BigLeqFrom(a, b, i - 1)

BigLeq(a, b) ==
  IF Len(a) # Len(b) THEN Len(a) < Len(b) ELSE BigLeqFrom(a, b, Len(a))

BigLess(a, b) == BigLeq(a, b) /\ a # b

(***************************************************************************)
(* np.logspace(np.log10(lo), np.log10(hi), num=10).                        *)
(***************************************************************************)
NumTicks == 10

Root == NumTicks - 1

\* np.log10 of a positive number is kept symbolically; log10(nan) is nan
log10(x) == [nan |-> x.nan, log10of |-> x.v]

NaNTick == [nan |-> TRUE, p9 |-> <<>>]

\* the i-th sample (0-based) of logspace: 10^(a + i*(b-a)/9), as its 9th power
Tick(lo, hi, i) ==
  [nan |-> FALSE, p9 |-> MulPow(MulPow(<<1>>, lo, Root - i), hi, i)]

Samples(lo, hi) == [i \in 1..NumTicks |-> Tick(lo, hi, i - 1)]

\* the samples for every pair of CompNodes values, computed once
SamplesTable == [lo \in CompNodeVals |-> [hi \in CompNodeVals |-> Samples(lo, hi)]]

logspace(start, stop) ==
  IF start.nan \/ stop.nan
  THEN [i \in 1..NumTicks |-> NaNTick]
  ELSE SamplesTable[start.log10of][stop.log10of]

\* the real number n as a tick, and the order of ticks that are numbers
TickOf(n) == [nan |-> FALSE, p9 |-> MulPow(<<1>>, n, Root)]
TickLess(t, u) == BigLess(t.p9, u.p9)

(***************************************************************************)
(* int(tick): the largest k with k^9 <= tick^9, found by bisection in      *)
(* lo..hi; a NaN has no integer part (ValueError).                         *)
(***************************************************************************)
RECURSIVE Floor9(_, _, _)
Floor9(p9, lo, hi) ==
  IF lo = hi THEN lo
  ELSE LET mid == (lo + hi + 1) \div 2
       IN  IF BigLeq(MulPow(<<1>>, mid, Root), p9)
           THEN Floor9(p9, mid, hi)
           ELSE Floor9(p9, lo, mid - 1)

IntegerPart(tick) == Floor9(tick.p9, 0, 1000)

\* the integer part of every tick of SamplesTable, computed once
AllSamples ==
  {SamplesTable[lo][hi][i] : lo \in CompNodeVals, hi \in CompNodeVals, i \in 1..NumTicks}

IntegerPartTable == [t \in AllSamples |-> IntegerPart(t)]

int(tick) == IntegerPartTable[tick]

(***************************************************************************)
(* f'{n:,}': the decimal digits of n with a comma between groups of three. *)
(***************************************************************************)
DigitChar == <<"0", "1", "2", "3", "4", "5", "6", "7", "8", "9">>

RECURSIVE Decimal(_)
Decimal(n) ==
  IF n < 10 THEN DigitChar[n + 1]
  ELSE Decimal(n \div 10) \o DigitChar[(n % 10) + 1]

Pad3(n) ==
  IF n < 10 THEN "00" \o Decimal(n)
  ELSE IF n < 100 THEN "0" \o Decimal(n)
  ELSE Decimal(n)

\* variant for C7: f'{n}', without the grouping
GroupedPlain(n) == Decimal(n)

RECURSIVE Grouped(_)
Grouped(n) ==
  IF n < 1000 THEN Decimal(n)
  ELSE Grouped(n \div 1000) \o "," \o Pad3(n % 1000)

(***************************************************************************)
(* The input: CSV files.  A file is absent, is not parseable as delimited  *)
(* text, or holds a header (cols) and rows that give a value per column.   *)
(***************************************************************************)
MetricOf(c, base) ==
  CASE c = "TimingCost" -> base
    [] c = "BandwidthUsage_Msg" -> base + 10
    [] c = "BandwidthUsage_Byte" -> base + 20
    [] c = "ComplTimeDiff" -> base + 30

RowOf(cols, n, inc, base) ==
  [c \in cols |-> CASE c = "CompNodes" -> n
                    [] c = "INC" -> inc
                    [] OTHER -> MetricOf(c, base)]

\* the i-th row of a file measures TimingCost 5, 8, 11, ...
BaseOf(i) == 3 * i + 2

\* the files of k rows: any CompNodes and INC per row
RowsOfLength(cols, k) ==
  {[i \in 1..k |-> RowOf(cols, f[i][1], f[i][2], BaseOf(i))] :
     f \in [1..k -> CompNodeVals \X IncVals]}

RowSeqs(cols, len) == UNION {RowsOfLength(cols, k) : k \in 0..len}

AbsentFile == [kind |-> "absent", cols |-> {}, rows |-> <<>>]
MalformedFile == [kind |-> "malformed", cols |-> {}, rows |-> <<>>]
TableFile(cols, rows) == [kind |-> "table", cols |-> cols, rows |-> rows]

CompleteTables == {TableFile(Columns, rs) : rs \in RowSeqs(Columns, MaxRows)}

\* files whose header lacks one of the columns, with one row
IncompleteTables ==
  UNION {{TableFile(Columns \ {c}, rs) : rs \in RowsOfLength(Columns \ {c}, 1)} : c \in Columns}

FileContents == CompleteTables \cup IncompleteTables \cup {MalformedFile}

Disks ==
  {[q \in Paths |-> AbsentFile]} \cup
  {[q \in Paths |-> IF q = p THEN c ELSE AbsentFile] : p \in Paths, c \in FileContents}

\* sys.argv: the program name followed by the positional arguments
ArgVectors ==
  {<<"plotResults.py">> \o a : a \in UNION {[1..k -> Paths] : k \in 0..MaxArgs}}

(***************************************************************************)
(* The output: the directory results/ and the figures saved into it.       *)
(***************************************************************************)
\* variant for C4: the third function saves under the second one's file name
ChartsCopiedFile ==
  << [metric |-> "TimingCost", title |-> "Timing Cost",
      file |-> "TimingCost.png"],
     [metric |-> "BandwidthUsage_Msg", title |-> "Bandwidth Usage (Message Based)",
      file |-> "BandwidthUsage_Msg.png"],
     [metric |-> "BandwidthUsage_Byte", title |-> "Bandwidth Usage",
      file |-> "BandwidthUsage_Msg.png"],
     [metric |-> "ComplTimeDiff", title |-> "Completion Time Variation",
      file |-> "ComplTimeDiff.png"] >>

\* variant for C6: the second function plots the first one's column
ChartsCopiedMetric ==
  << [metric |-> "TimingCost", title |-> "Timing Cost",
      file |-> "TimingCost.png"],
     [metric |-> "TimingCost", title |-> "Bandwidth Usage (Message Based)",
      file |-> "BandwidthUsage_Msg.png"],
     [metric |-> "BandwidthUsage_Byte", title |-> "Bandwidth Usage",
      file |-> "BandwidthUsage_Byte.png"],
     [metric |-> "ComplTimeDiff", title |-> "Completion Time Variation",
      file |-> "ComplTimeDiff.png"] >>

Charts ==
  << [metric |-> "TimingCost", title |-> "Timing Cost",
      file |-> "TimingCost.png"],
     [metric |-> "BandwidthUsage_Msg", title |-> "Bandwidth Usage (Message Based)",
      file |-> "BandwidthUsage_Msg.png"],
     [metric |-> "BandwidthUsage_Byte", title |-> "Bandwidth Usage",
      file |-> "BandwidthUsage_Byte.png"],
     [metric |-> "ComplTimeDiff", title |-> "Completion Time Variation",
      file |-> "ComplTimeDiff.png"] >>

ChartFiles == {Charts[k].file : k \in 1..Len(Charts)}

OtherFiles == {"notes.txt"}

FileNames == ChartFiles \cup OtherFiles

\* plt.figure(): a figure with nothing drawn
BlankFigure == [title |-> "", series |-> <<>>, xticks |-> <<>>, xticklabels |-> <<>>]

NoEntry == [present |-> FALSE, by |-> 0, image |-> BlankFigure]

\* a file left in results/ before the first run (written by run 0)
StaleEntry == [present |-> TRUE, by |-> 0, image |-> [BlankFigure EXCEPT !.title = "stale"]]

DirWith(names) ==
  [exists |-> TRUE, files |-> [f \in FileNames |-> IF f \in names THEN StaleEntry ELSE NoEntry]]

AbsentDir == [exists |-> FALSE, files |-> [f \in FileNames |-> NoEntry]]

InitialDirs == {AbsentDir, DirWith({}), DirWith({"TimingCost.png", "notes.txt"})}

FilesIn(dir) == {f \in FileNames : dir.files[f].present}

(***************************************************************************)
(* pandas: DataFrame, boolean-mask selection, column access, reductions.   *)
(***************************************************************************)
EmptyFrame == [columns |-> {}, rows |-> <<>>]

\* pd.read_csv of a parseable file: the header's columns, a RangeIndex from 0
read_csv(content) ==
  [columns |-> content.cols,
   rows |-> [i \in 1..Len(content.rows) |-> [idx |-> i - 1, cells |-> content.rows[i]]]]

HasColumn(df, c) == c \in df.columns

\* df[df[c] == v]
\* variant for C1: selection by >= instead of ==
IsSelectedAtLeast(r, c, v) == r.cells[c] >= v
IsSelected(r, c, v) == r.cells[c] = v
Select(df, c, v) ==
  [columns |-> df.columns, rows |-> SelectSeq(df.rows, LAMBDA r : IsSelected(r, c, v))]

\* df[c]: the values of column c in row order
Column(df, c) == [i \in 1..Len(df.rows) |-> df.rows[i].cells[c]]

RECURSIVE SeqMax(_)
SeqMax(s) ==
  IF Len(s) = 1 THEN s[1]
  ELSE LET m == SeqMax(Tail(s)) IN IF s[1] >= m THEN s[1] ELSE m

RECURSIVE SeqMin(_)
SeqMin(s) ==
  IF Len(s) = 1 THEN s[1]
  ELSE LET m == SeqMin(Tail(s)) IN IF s[1] <= m THEN s[1] ELSE m

\* Series.max() and Series.min(): NaN for a series without values
SeriesMax(s) == IF s = <<>> THEN NaN ELSE Num(SeqMax(s))
SeriesMin(s) == IF s = <<>> THEN NaN ELSE Num(SeqMin(s))

\* the builtins max(a, b) and min(a, b): b replaces a only if b > a (b < a),
\* and every comparison with NaN is false
PyGreater(b, a) == ~b.nan /\ ~a.nan /\ b.v > a.v
PyLess(b, a) == ~b.nan /\ ~a.nan /\ b.v < a.v
\* variant for C5: a maximum that is NaN when either argument is (np.maximum)
PyMaxPropagating(a, b) == IF a.nan \/ b.nan THEN NaN ELSE IF b.v > a.v THEN b ELSE a
PyMax(a, b) == IF PyGreater(b, a) THEN b ELSE a
PyMin(a, b) == IF PyLess(b, a) THEN b ELSE a

\* lines 18-20 of each chart function
max_comp_nodes(inc, trad) ==
  PyMax(SeriesMax(Column(inc, "CompNodes")), SeriesMax(Column(trad, "CompNodes")))
min_comp_nodes(inc, trad) ==
  PyMin(SeriesMin(Column(inc, "CompNodes")), SeriesMin(Column(trad, "CompNodes")))
ticks(inc, trad) ==
  logspace(log10(min_comp_nodes(inc, trad)), log10(max_comp_nodes(inc, trad)))

\* line 21: the labels; int(nan) raises ValueError
LabelsRaise(ts) == \E i \in 1..Len(ts) : ts[i].nan
Labels(ts) == [i \in 1..Len(ts) |-> Grouped(int(ts[i]))]

\* plt.plot(df['CompNodes'], df[metric], label=..., marker=...)
\* variant for C9: every chart plots the TimingCost column
LineTimingCost(df, metric, label, marker) ==
  [label |-> label, marker |-> marker,
   x |-> Column(df, "CompNodes"), y |-> Column(df, "TimingCost")]

Line(df, metric, label, marker) ==
  [label |-> label, marker |-> marker,
   x |-> Column(df, "CompNodes"), y |-> Column(df, metric)]

(***************************************************************************)
(* The state.                                                              *)
(*   sys_argv, disk, resultsDir   the command line and the file system     *)
(*   run                          which run of the program this is         *)
(*   pc, chart                    the statement the run is at, and the     *)
(*                                chart function (1..4) it is in           *)
(*   csv_file_path, data, inc_enabled, traditional   the script's locals   *)
(*   figures                      the open matplotlib figures, newest last *)
(*   stdout, exitStatus, exitCause   what the process printed, its exit    *)
(*                                status (-1 while running) and its cause  *)
(*   probed, opened, mkdirs, saved   history of this run: the paths tested *)
(*                                for existence, the paths read, the       *)
(*                                number of os.makedirs calls, the files   *)
(*                                written by savefig in order              *)
(*   prev                         results/ and the exit status at the end  *)
(*                                of the previous run                      *)
(***************************************************************************)
VARIABLES sys_argv, disk, resultsDir, run, pc, chart, csv_file_path, data,
          inc_enabled, traditional, figures, stdout, exitStatus, exitCause,
          probed, opened, mkdirs, saved, prev

vars ==
  <<sys_argv, disk, resultsDir, run, pc, chart, csv_file_path, data,
    inc_enabled, traditional, figures, stdout, exitStatus, exitCause,
    probed, opened, mkdirs, saved, prev>>

environment == <<sys_argv, disk, run, prev>>
locals == <<csv_file_path, data, inc_enabled, traditional>>
history == <<probed, opened, mkdirs, saved>>

NoCause == [kind |-> "", error |-> "", at |-> ""]

\* the process starts: nothing assigned, nothing printed, nothing open
ProcessStart ==
  /\ pc = "main"
  /\ chart = 0
  /\ csv_file_path = ""
  /\ data = EmptyFrame
  /\ inc_enabled = EmptyFrame
  /\ traditional = EmptyFrame
  /\ figures = <<>>
  /\ stdout = <<>>
  /\ exitStatus = -1
  /\ exitCause = NoCause
  /\ probed = {}
  /\ opened = {}
  /\ mkdirs = 0
  /\ saved = <<>>

Init ==
  /\ sys_argv \in ArgVectors
  /\ disk \in Disks
  /\ resultsDir \in InitialDirs
  /\ run = 1
  /\ prev = [dir |-> resultsDir, status |-> -1]
  /\ ProcessStart

(***************************************************************************)
(* The ways a run ends.                                                    *)
(***************************************************************************)
\* sys.exit(code)
SysExit(code) ==
  /\ pc' = "exit"
  /\ exitStatus' = code
  /\ exitCause' = [kind |-> "sys.exit", error |-> "", at |-> pc]

\* an exception nobody catches: the interpreter prints the traceback to
\* stderr and the process ends with status 1
Raise(error) ==
  /\ pc' = "exit"
  /\ exitStatus' = 1
  /\ exitCause' = [kind |-> "exception", error |-> error, at |-> pc]

\* the script runs off its end
Finish ==
  /\ pc' = "exit"
  /\ exitStatus' = 0
  /\ exitCause' = [kind |-> "end", error |-> "", at |-> pc]

(***************************************************************************)
(* __main__, lines 102-108.                                                *)
(***************************************************************************)
\* variant for C3: the program name not counted in len(sys.argv)
TooManyArgumentsPositional(argv) == Len(argv) > 3
TooManyArguments(argv) == Len(argv) > 2

PathArgument(argv) == IF Len(argv) = 2 THEN argv[2] ELSE "result.csv"

Main ==
  /\ pc = "main"
  /\ IF TooManyArguments(sys_argv)
     THEN /\ stdout' = Append(stdout, "Usage: python plotResults.py [<csv_file_path>]")
          /\ SysExit(1)
          /\ UNCHANGED csv_file_path
     ELSE /\ csv_file_path' = PathArgument(sys_argv)
          /\ pc' = "exists"
          /\ UNCHANGED <<stdout, exitStatus, exitCause>>
  /\ UNCHANGED <<environment, resultsDir, chart, data, inc_enabled, traditional,
                 figures, history>>

(***************************************************************************)
(* visualize_data, lines 83-100.                                           *)
(***************************************************************************)
\* variant for C2: no test of the path before pd.read_csv
CheckExistsSkipped ==
  /\ pc = "exists"
  /\ pc' = "read_csv"
  /\ UNCHANGED <<environment, resultsDir, chart, locals, figures, stdout,
                 exitStatus, exitCause, history>>

\* lines 84-86
CheckExists ==
  /\ pc = "exists"
  /\ probed' = probed \cup {csv_file_path}
  /\ IF disk[csv_file_path].kind = "absent"
     THEN /\ stdout' = Append(stdout, "File not found: " \o csv_file_path)
          /\ SysExit(1)
     ELSE /\ pc' = "read_csv"
          /\ UNCHANGED <<stdout, exitStatus, exitCause>>
  /\ UNCHANGED <<environment, resultsDir, chart, locals, figures, opened, mkdirs, saved>>

\* line 88
ReadCsv ==
  /\ pc = "read_csv"
  /\ opened' = opened \cup {csv_file_path}
  /\ IF disk[csv_file_path].kind # "table"
     THEN /\ Raise(IF disk[csv_file_path].kind = "absent"
                   THEN "FileNotFoundError" ELSE "ParserError")
          /\ UNCHANGED data
     ELSE /\ data' = read_csv(disk[csv_file_path])
          /\ pc' = "split"
          /\ UNCHANGED <<exitStatus, exitCause>>
  /\ UNCHANGED <<environment, resultsDir, chart, csv_file_path, inc_enabled,
                 traditional, figures, stdout, probed, mkdirs, saved>>

\* lines 90-91
Split ==
  /\ pc = "split"
  /\ IF ~HasColumn(data, "INC")
     THEN /\ Raise("KeyError")
          /\ UNCHANGED <<inc_enabled, traditional>>
     ELSE /\ inc_enabled' = Select(data, "INC", 1)
          /\ traditional' = Select(data, "INC", 0)
          /\ pc' = "makedirs"
          /\ UNCHANGED <<exitStatus, exitCause>>
  /\ UNCHANGED <<environment, resultsDir, chart, csv_file_path, data, figures,
                 stdout, history>>

\* variant for C8: os.makedirs without the test, which raises on an existing
\* directory
MakeDirsUnconditional ==
  /\ pc = "makedirs"
  /\ mkdirs' = mkdirs + 1
  /\ IF resultsDir.exists
     THEN /\ Raise("FileExistsError")
          /\ UNCHANGED <<resultsDir, chart>>
     ELSE /\ resultsDir' = [resultsDir EXCEPT !.exists = TRUE]
          /\ pc' = "figure"
          /\ chart' = 1
          /\ UNCHANGED <<exitStatus, exitCause>>
  /\ UNCHANGED <<environment, locals, figures, stdout, probed, opened, saved>>

\* lines 94-95
MakeDirs ==
  /\ pc = "makedirs"
  /\ IF ~resultsDir.exists
     THEN /\ resultsDir' = [resultsDir EXCEPT !.exists = TRUE]
          /\ mkdirs' = mkdirs + 1
     ELSE UNCHANGED <<resultsDir, mkdirs>>
  /\ pc' = "figure"
  /\ chart' = 1
  /\ UNCHANGED <<environment, locals, figures, stdout, exitStatus, exitCause,
                 probed, opened, saved>>

visualize_data == CheckExists \/ ReadCsv \/ Split \/ MakeDirs

(***************************************************************************)
(* The chart functions.  All four have the same statements and differ in   *)
(* the metric column, the title and the file name (Charts[k]).             *)
(***************************************************************************)
Current == figures[Len(figures)]

SetCurrent(fig) == [figures EXCEPT ![Len(figures)] = fig]

\* plt.figure(figsize=(14, 7))
FigureStep(k) ==
  /\ pc = "figure" /\ chart = k
  /\ figures' = Append(figures, BlankFigure)
  /\ pc' = "plot"
  /\ UNCHANGED <<environment, resultsDir, chart, locals, stdout, exitStatus,
                 exitCause, history>>

\* the two plt.plot calls, the title, the labels, the legend and the scales
PlotStep(k) ==
  /\ pc = "plot" /\ chart = k
  /\ IF ~HasColumn(inc_enabled, "CompNodes") \/ ~HasColumn(inc_enabled, Charts[k].metric)
     THEN /\ Raise("KeyError")
          /\ UNCHANGED figures
     ELSE /\ figures' = SetCurrent(
               [Current EXCEPT
                  !.series = << Line(inc_enabled, Charts[k].metric, "INC-enabled", "o"),
                                Line(traditional, Charts[k].metric, "Traditional", "D") >>,
                  !.title = Charts[k].title])
          /\ pc' = "ticks"
          /\ UNCHANGED <<exitStatus, exitCause>>
  /\ UNCHANGED <<environment, resultsDir, chart, locals, stdout, history>>

\* max_comp_nodes, min_comp_nodes, ticks and plt.xticks
TicksStep(k) ==
  /\ pc = "ticks" /\ chart = k
  /\ LET ts == ticks(inc_enabled, traditional)
     IN  IF LabelsRaise(ts)
         THEN /\ Raise("ValueError")
              /\ UNCHANGED figures
         ELSE /\ figures' = SetCurrent([Current EXCEPT !.xticks = ts,
                                                       !.xticklabels = Labels(ts)])
              /\ pc' = "savefig"
              /\ UNCHANGED <<exitStatus, exitCause>>
  /\ UNCHANGED <<environment, resultsDir, chart, locals, stdout, history>>

\* plt.tight_layout and plt.savefig('results/<file>'): the file is created
\* or replaced
SaveStep(k) ==
  /\ pc = "savefig" /\ chart = k
  /\ resultsDir' = [resultsDir EXCEPT !.files[Charts[k].file] =
                      [present |-> TRUE, by |-> run, image |-> Current]]
  /\ saved' = Append(saved, Charts[k].file)
  /\ pc' = "close"
  /\ UNCHANGED <<environment, chart, locals, figures, stdout, exitStatus,
                 exitCause, probed, opened, mkdirs>>

\* variant for C10: the function returns without plt.close()
CloseStepLeak(k) ==
  /\ pc = "close" /\ chart = k
  /\ IF k < 4
     THEN /\ chart' = k + 1
          /\ pc' = "figure"
          /\ UNCHANGED <<exitStatus, exitCause>>
     ELSE /\ Finish
          /\ UNCHANGED chart
  /\ UNCHANGED <<environment, resultsDir, locals, figures, stdout, history>>

\* plt.close(), and the return to visualize_data
CloseStep(k) ==
  /\ pc = "close" /\ chart = k
  /\ figures' = SubSeq(figures, 1, Len(figures) - 1)
  /\ IF k < Len(Charts)
     THEN /\ chart' = k + 1
          /\ pc' = "figure"
          /\ UNCHANGED <<exitStatus, exitCause>>
     ELSE /\ Finish
          /\ UNCHANGED chart
  /\ UNCHANGED <<environment, resultsDir, locals, stdout, history>>

PlotFunction(k) ==
  FigureStep(k) \/ PlotStep(k) \/ TicksStep(k) \/ SaveStep(k) \/ CloseStep(k)

plot_timing_cost == PlotFunction(1)
plot_bandwidth_usage_msg == PlotFunction(2)
plot_bandwidth_usage_byte == PlotFunction(3)
plot_compl_time_diff == PlotFunction(4)

(***************************************************************************)
(* The user runs the program again, with the same command line, on the     *)
(* file system the previous run left.                                      *)
(***************************************************************************)
Rerun ==
  /\ pc = "exit"
  /\ run < MaxRuns
  /\ run' = run + 1
  /\ prev' = [dir |-> resultsDir, status |-> exitStatus]
  /\ pc' = "main"
  /\ chart' = 0
  /\ csv_file_path' = ""
  /\ data' = EmptyFrame
  /\ inc_enabled' = EmptyFrame
  /\ traditional' = EmptyFrame
  /\ figures' = <<>>
  /\ stdout' = <<>>
  /\ exitStatus' = -1
  /\ exitCause' = NoCause
  /\ probed' = {}
  /\ opened' = {}
  /\ mkdirs' = 0
  /\ saved' = <<>>
  /\ UNCHANGED <<sys_argv, disk, resultsDir>>

Next ==
  \/ Main
  \/ visualize_data
  \/ plot_timing_cost
  \/ plot_bandwidth_usage_msg
  \/ plot_bandwidth_usage_byte
  \/ plot_compl_time_diff
  \/ Rerun

Spec == Init /\ [][Next]_vars

(***************************************************************************)
(* Properties.                                                             *)
(***************************************************************************)
Plotting == {"figure", "plot", "ticks", "savefig", "close"}

\* the run has exited, and how
Exited == pc = "exit"
Succeeded == Exited /\ exitStatus = 0
RaisedAt(where) == Exited /\ exitCause.kind = "exception" /\ exitCause.at = where

\* line 88 has assigned data; lines 90-91 have assigned the cohorts
HasLoaded ==
  \/ pc \in {"split", "makedirs"} \cup Plotting
  \/ Exited /\ exitCause.at \in {"split", "plot", "ticks", "close"}
HasSplit ==
  \/ pc \in {"makedirs"} \cup Plotting
  \/ Exited /\ exitCause.at \in {"plot", "ticks", "close"}

\* the current chart function has passed plt.xticks
HasTicks == pc \in {"savefig", "close"}

\* the rows of the input file, and the rows of a frame as a set
InputRows == disk[csv_file_path].rows
RowSet(df) == {df.rows[i] : i \in 1..Len(df.rows)}
InFileOrder(df) ==
  \A i, j \in 1..Len(df.rows) : i < j => df.rows[i].idx < df.rows[j].idx

\* the names of the four charts, in the order of the calls in visualize_data
FourFiles ==
  <<"TimingCost.png", "BandwidthUsage_Msg.png", "BandwidthUsage_Byte.png",
    "ComplTimeDiff.png">>
FourFileSet == {FourFiles[k] : k \in 1..4}
FirstFiles(n) == SubSeq(FourFiles, 1, n)

\* this run has left everything under results/ as it found it
OutputUntouched == resultsDir = prev.dir /\ mkdirs = 0 /\ saved = <<>>

(***************************************************************************)
(* C1.  After the split, the INC-enabled cohort holds exactly the loaded   *)
(* rows whose INC is 1 and the traditional cohort exactly those whose INC  *)
(* is 0; the cohorts are disjoint subsets of the loaded rows, each in file *)
(* order; a row is in neither iff its INC is neither 0 nor 1; and the      *)
(* split raises only when the INC column is missing, never because of such *)
(* a row.                                                                  *)
(***************************************************************************)
C1_SplitPartitions ==
  /\ HasLoaded =>
       /\ Len(data.rows) = Len(InputRows)
       /\ \A i \in 1..Len(InputRows) :
            data.rows[i] = [idx |-> i - 1, cells |-> InputRows[i]]
  /\ HasSplit =>
       /\ \A r \in RowSet(data) :
            /\ r \in RowSet(inc_enabled) <=> r.cells["INC"] = 1
            /\ r \in RowSet(traditional) <=> r.cells["INC"] = 0
            /\ (r \notin RowSet(inc_enabled) /\ r \notin RowSet(traditional))
                 <=> r.cells["INC"] \notin {0, 1}
       /\ RowSet(inc_enabled) \cap RowSet(traditional) = {}
       /\ RowSet(inc_enabled) \subseteq RowSet(data)
       /\ RowSet(traditional) \subseteq RowSet(data)
       /\ InFileOrder(inc_enabled) /\ InFileOrder(traditional)
       /\ Len(inc_enabled.rows) = Cardinality(RowSet(inc_enabled))
       /\ Len(traditional.rows) = Cardinality(RowSet(traditional))
  /\ RaisedAt("split") => ~HasColumn(data, "INC")

C1_Witness ==
  /\ HasSplit
  /\ \E r \in RowSet(data) : r.cells["INC"] \notin {0, 1}
  /\ \E r \in RowSet(data) : r.cells["INC"] \in {0, 1}

(***************************************************************************)
(* C2.  When the input path does not exist, the run prints "File not       *)
(* found", exits with status 1 and has parsed nothing, created no results/ *)
(* directory and written no chart.                                         *)
(***************************************************************************)
C2_MissingInputFile ==
  (pc \notin {"main", "exists"} /\ csv_file_path # ""
     /\ disk[csv_file_path].kind = "absent")
  => /\ Exited
     /\ exitStatus = 1
     /\ exitCause = [kind |-> "sys.exit", error |-> "", at |-> "exists"]
     /\ stdout = <<"File not found: " \o csv_file_path>>
     /\ opened = {}
     /\ data = EmptyFrame
     /\ OutputUntouched

C2_Witness ==
  /\ Exited
  /\ csv_file_path # ""
  /\ disk[csv_file_path].kind = "absent"
  /\ ~resultsDir.exists

(***************************************************************************)
(* C3.  With two or more positional arguments the run prints the usage     *)
(* message and exits with status 1 without testing or reading any file     *)
(* and without any output; with one positional argument that argument is   *)
(* the input path; with none the input path is result.csv.                 *)
(***************************************************************************)
C3_ArgumentCount ==
  LET positional == Len(sys_argv) - 1
  IN  /\ pc = "main" => probed = {} /\ opened = {} /\ OutputUntouched
      /\ pc # "main" =>
           IF positional >= 2
           THEN /\ Exited
                /\ exitStatus = 1
                /\ exitCause = [kind |-> "sys.exit", error |-> "", at |-> "main"]
                /\ stdout = <<"Usage: python plotResults.py [<csv_file_path>]">>
                /\ probed = {} /\ opened = {}
                /\ OutputUntouched
           ELSE IF positional = 1
           THEN csv_file_path = sys_argv[2]
           ELSE csv_file_path = "result.csv"

C3_Witness == Exited /\ Len(sys_argv) - 1 >= 2 /\ stdout # <<>>

(***************************************************************************)
(* C4 as stated.  A run that ends without failure has created results/ if  *)
(* it was absent, has saved four charts, results/ then holds exactly the   *)
(* four chart files, all from this run, and the exit status is 0; exit     *)
(* status 1 comes only from the missing-file check and the argument check. *)
(***************************************************************************)
C4_AsStated ==
  /\ Succeeded =>
       /\ resultsDir.exists
       /\ saved = FourFiles
       /\ FilesIn(resultsDir) = FourFileSet
       /\ \A f \in FourFileSet : resultsDir.files[f].by = run
  /\ (Exited /\ exitStatus = 1) => exitCause.at \in {"main", "exists"}

(***************************************************************************)
(* C4 amended.  A run that ends without failure has created results/ iff   *)
(* it was absent, has saved the four charts once each in order, results/   *)
(* holds the four chart files, all from this run, next to the other files  *)
(* it already held, which are unchanged, and the exit status is 0.  The    *)
(* script itself exits with status 1 only in the missing-file check and in *)
(* the argument check; a run ended by an uncaught exception has status 1   *)
(* as well.  No other status occurs.                                       *)
(***************************************************************************)
C4_RunOutcome ==
  Exited =>
    /\ exitCause.kind \in {"end", "sys.exit", "exception"}
    /\ exitStatus = 0 <=> exitCause.kind = "end"
    /\ exitStatus = 1 <=> exitCause.kind \in {"sys.exit", "exception"}
    /\ exitCause.kind = "sys.exit" => exitCause.at \in {"main", "exists"}
    /\ exitCause.kind = "exception" => exitCause.at \notin {"main", "exists"}
    /\ Succeeded =>
         /\ resultsDir.exists
         /\ mkdirs = (IF prev.dir.exists THEN 0 ELSE 1)
         /\ saved = FourFiles
         /\ FilesIn(resultsDir) = FourFileSet \cup FilesIn(prev.dir)
         /\ \A f \in FourFileSet : resultsDir.files[f].by = run
         /\ \A f \in FileNames \ FourFileSet :
              resultsDir.files[f] = prev.dir.files[f]

C4_Witness ==
  /\ Succeeded
  /\ mkdirs = 1
  /\ run = 1

(***************************************************************************)
(* C5 as stated.  If either cohort has no rows, no chart function gets     *)
(* past its tick computation: no image is written and the run fails.       *)
(***************************************************************************)
C5_AsStated ==
  (HasSplit /\ (inc_enabled.rows = <<>> \/ traditional.rows = <<>>))
  => /\ ~HasTicks
     /\ saved = <<>>
     /\ Exited => exitStatus = 1

(***************************************************************************)
(* C5 amended.  If the INC-enabled cohort has no rows, the first chart     *)
(* function fails in its tick labels with a ValueError (unless a missing   *)
(* column has raised a KeyError before), the run ends and no image is      *)
(* written.  If only the traditional cohort has no rows, nothing fails:    *)
(* the ticks span the CompNodes of the INC-enabled cohort alone and every  *)
(* chart is written.  A ValueError occurs only when the INC-enabled cohort *)
(* is empty.                                                               *)
(***************************************************************************)
C5_EmptyCohort ==
  /\ (HasSplit /\ inc_enabled.rows = <<>>) =>
       /\ ~HasTicks
       /\ saved = <<>>
       /\ Exited => /\ exitStatus = 1
                    /\ chart = 1
                    /\ \/ exitCause.error = "ValueError" /\ exitCause.at = "ticks"
                       \/ exitCause.error = "KeyError" /\ exitCause.at = "plot"
       /\ (Exited /\ data.columns = Columns) => exitCause.error = "ValueError"
  /\ (HasSplit /\ inc_enabled.rows # <<>> /\ traditional.rows = <<>>) =>
       /\ HasTicks =>
            /\ Current.xticks[1] = TickOf(SeqMin(Column(inc_enabled, "CompNodes")))
            /\ Current.xticks[NumTicks] = TickOf(SeqMax(Column(inc_enabled, "CompNodes")))
       /\ Exited => exitCause.error # "ValueError"
       /\ (Exited /\ data.columns = Columns) => exitStatus = 0 /\ saved = FourFiles
  /\ (Exited /\ exitCause.error = "ValueError") => inc_enabled.rows = <<>>

C5_Witness ==
  /\ RaisedAt("ticks")
  /\ exitCause.error = "ValueError"
  /\ inc_enabled.rows = <<>>
  /\ traditional.rows # <<>>
  /\ figures # <<>>
  /\ saved = <<>>

(***************************************************************************)
(* C6 as stated.  If the input file lacks a required column, the run fails *)
(* in the load step: it never gets past line 88, and leaves results/       *)
(* untouched.                                                              *)
(***************************************************************************)
C6_AsStated ==
  (pc \notin {"main", "exists", "read_csv"} /\ csv_file_path # ""
     /\ disk[csv_file_path].kind = "table" /\ disk[csv_file_path].cols # Columns)
  => /\ RaisedAt("read_csv")
     /\ OutputUntouched

(***************************************************************************)
(* C6 amended.  If the input file lacks a required column, the load step   *)
(* succeeds and the run ends with a KeyError at the first statement that   *)
(* reads the column: the split for INC, before results/ is created; the    *)
(* first chart function for CompNodes and TimingCost, the second for       *)
(* BandwidthUsage_Msg, the third for BandwidthUsage_Byte and the fourth    *)
(* for ComplTimeDiff, after results/ is created and after the charts of    *)
(* the earlier functions are written.  The one exception: when the         *)
(* INC-enabled cohort is empty and the first chart function reads no       *)
(* missing column, the run ends there with the ValueError of C5.           *)
(***************************************************************************)
C6_MissingColumn ==
  LET FirstUse(c) == CASE c = "INC" -> 0
                       [] c \in {"CompNodes", "TimingCost"} -> 1
                       [] c = "BandwidthUsage_Msg" -> 2
                       [] c = "BandwidthUsage_Byte" -> 3
                       [] c = "ComplTimeDiff" -> 4
  IN  \A c \in Columns :
        (HasLoaded /\ disk[csv_file_path].cols = Columns \ {c}) =>
          /\ data = read_csv(disk[csv_file_path])
          /\ ~Succeeded
          /\ FirstUse(c) = 0 => /\ OutputUntouched
                                /\ Exited => RaisedAt("split") /\ exitCause.error = "KeyError"
          /\ FirstUse(c) > 0 =>
               /\ Len(saved) < FirstUse(c)
               /\ pc \notin {"split", "makedirs"} => resultsDir.exists
               /\ Exited =>
                    IF inc_enabled.rows = <<>> /\ FirstUse(c) > 1
                    THEN /\ RaisedAt("ticks") /\ exitCause.error = "ValueError"
                         /\ chart = 1 /\ saved = <<>>
                    ELSE /\ RaisedAt("plot") /\ exitCause.error = "KeyError"
                         /\ chart = FirstUse(c)
                         /\ saved = FirstFiles(FirstUse(c) - 1)
                         /\ \A k \in 1..Len(saved) : resultsDir.files[saved[k]].by = run

C6_Witness ==
  /\ RaisedAt("plot")
  /\ exitCause.error = "KeyError"
  /\ "BandwidthUsage_Msg" \notin data.columns
  /\ saved = <<"TimingCost.png">>
  /\ resultsDir.files["TimingCost.png"].by = run

(***************************************************************************)
(* C7 as stated.  With both cohorts non-empty, a chart function computes   *)
(* ten log-spaced, strictly increasing ticks from the least to the         *)
(* greatest CompNodes of both cohorts together, and labels each with its   *)
(* integer part, thousands-grouped.                                        *)
(***************************************************************************)
NinthPowers == [k \in 0..1001 |-> MulPow(<<1>>, k, 9)]

BothCompNodes == Column(inc_enabled, "CompNodes") \o Column(traditional, "CompNodes")

\* ts is a geometric sequence of ten ticks from lo to hi
LogSpaced(ts, lo, hi) ==
  /\ Len(ts) = 10
  /\ \A i \in 1..10 : ~ts[i].nan
  /\ ts[1].p9 = NinthPowers[lo]
  /\ ts[10].p9 = NinthPowers[hi]
  /\ \A i \in 1..9 : MulSmall(ts[i + 1].p9, lo, 0) = MulSmall(ts[i].p9, hi, 0)

\* label is the thousands-grouped integer part of tick t
LabelOf(t, label) ==
  \E k \in {int(t)} :
    /\ BigLeq(NinthPowers[k], t.p9)
    /\ BigLess(t.p9, NinthPowers[k + 1])
    /\ label = Grouped(k)

LabelsOf(ts, labels) ==
  /\ Len(labels) = Len(ts)
  /\ \A i \in 1..Len(ts) : LabelOf(ts[i], labels[i])

C7_AsStated ==
  (HasTicks /\ inc_enabled.rows # <<>> /\ traditional.rows # <<>>) =>
    LET ts == Current.xticks
    IN  /\ LogSpaced(ts, SeqMin(BothCompNodes), SeqMax(BothCompNodes))
        /\ \A i \in 1..9 : TickLess(ts[i], ts[i + 1])
        /\ LabelsOf(ts, Current.xticklabels)

(***************************************************************************)
(* C7 amended.  With both cohorts non-empty, a chart function computes ten *)
(* log-spaced ticks from the least to the greatest CompNodes of both       *)
(* cohorts together; they are strictly increasing when the least is below  *)
(* the greatest and all equal to it otherwise; each label is the integer   *)
(* part of its tick, thousands-grouped.  For CompNodes from 10 to 1000 the *)
(* labels are 10, 16, 27, 46, 77, 129, 215, 359, 599 and 1,000.            *)
(***************************************************************************)
C7_Ticks ==
  (HasTicks /\ inc_enabled.rows # <<>> /\ traditional.rows # <<>>) =>
    LET ts == Current.xticks
        lo == SeqMin(BothCompNodes)
        hi == SeqMax(BothCompNodes)
    IN  /\ LogSpaced(ts, lo, hi)
        /\ lo < hi => \A i \in 1..9 : TickLess(ts[i], ts[i + 1])
        /\ lo = hi => \A i \in 1..10 : ts[i] = TickOf(lo)
        /\ LabelsOf(ts, Current.xticklabels)
        /\ (lo = 10 /\ hi = 1000) =>
             Current.xticklabels =
               <<"10", "16", "27", "46", "77", "129", "215", "359", "599", "1,000">>
        /\ (lo = 1000 /\ hi = 1000) =>
             \A i \in 1..10 : Current.xticklabels[i] = "1,000"

C7_Witness ==
  /\ HasTicks
  /\ inc_enabled.rows # <<>> /\ traditional.rows # <<>>
  /\ SeqMin(BothCompNodes) = 10
  /\ SeqMax(BothCompNodes) = 1000
  /\ Current.xticklabels[10] = "1,000"

(***************************************************************************)
(* C8.  A second run on the same input ends as the first did and leaves    *)
(* results/ with the same set of files: it does not create the directory   *)
(* again, and when it succeeds each of the four charts is this run's,      *)
(* with the image the first run had written, every other file being left   *)
(* as it was.                                                              *)
(***************************************************************************)
C8_RerunIdempotent ==
  (run >= 2 /\ Exited) =>
    /\ exitStatus = prev.status
    /\ resultsDir.exists = prev.dir.exists
    /\ mkdirs = 0
    /\ FilesIn(resultsDir) = FilesIn(prev.dir)
    /\ \A f \in FileNames : resultsDir.files[f].image = prev.dir.files[f].image
    /\ \A f \in FileNames \ FourFileSet : resultsDir.files[f] = prev.dir.files[f]
    /\ Succeeded =>
         /\ saved = FourFiles
         /\ \A f \in FourFileSet :
              /\ resultsDir.files[f].present
              /\ resultsDir.files[f].by = run
              /\ prev.dir.files[f].by = run - 1

C8_Witness ==
  /\ run = 2
  /\ Succeeded
  /\ FilesIn(resultsDir) = FourFileSet

(***************************************************************************)
(* C9.  The chart of a metric has two series: the first holds one point    *)
(* (CompNodes, metric) per row of the file whose INC is 1, the second one  *)
(* per row whose INC is 0, both in file order and nothing else.  For the   *)
(* file with the rows (CompNodes 10, INC 1, TimingCost 5) and (CompNodes   *)
(* 10, INC 0, TimingCost 8) the TimingCost chart has the points (10, 5)    *)
(* and (10, 8), one per series, and the run succeeds.                      *)
(***************************************************************************)
FourMetrics ==
  <<"TimingCost", "BandwidthUsage_Msg", "BandwidthUsage_Byte", "ComplTimeDiff">>

\* the points of the rows of the file whose INC is v, for metric m
PointsOf(v, m) ==
  LET rows == SelectSeq(InputRows, LAMBDA r : r["INC"] = v)
  IN  [x |-> [i \in 1..Len(rows) |-> rows[i]["CompNodes"]],
       y |-> [i \in 1..Len(rows) |-> rows[i][m]]]

ShowsMetric(fig, m) ==
  /\ Len(fig.series) = 2
  /\ fig.series[1].label = "INC-enabled"
  /\ fig.series[2].label = "Traditional"
  /\ [x |-> fig.series[1].x, y |-> fig.series[1].y] = PointsOf(1, m)
  /\ [x |-> fig.series[2].x, y |-> fig.series[2].y] = PointsOf(0, m)

C9_SeriesPoints ==
  /\ pc \in {"ticks", "savefig", "close"} => ShowsMetric(Current, FourMetrics[chart])
  /\ \A k \in 1..Len(saved) :
       ShowsMetric(resultsDir.files[FourFiles[k]].image, FourMetrics[k])
  /\ (csv_file_path # "" /\ disk[csv_file_path].kind = "table"
        /\ InputRows = <<RowOf(Columns, 10, 1, 5), RowOf(Columns, 10, 0, 8)>>) =>
       /\ Exited => Succeeded
       /\ Len(saved) >= 1 =>
            LET fig == resultsDir.files["TimingCost.png"].image
            IN  /\ fig.series[1].x = <<10>> /\ fig.series[1].y = <<5>>
                /\ fig.series[2].x = <<10>> /\ fig.series[2].y = <<8>>

C9_Witness ==
  /\ Succeeded
  /\ InputRows = <<RowOf(Columns, 10, 1, 5), RowOf(Columns, 10, 0, 8)>>
  /\ resultsDir.files["TimingCost.png"].image.series[1].y = <<5>>

(***************************************************************************)
(* C10.  The chart functions run in the order TimingCost,                  *)
(* BandwidthUsage_Msg, BandwidthUsage_Byte, ComplTimeDiff, each closing    *)
(* its figure before the next opens one: at most one figure is open, the   *)
(* charts written so far by the run are a prefix of that order, the        *)
(* cohorts stay what the split made them, and a run that an exception ends *)
(* inside the k-th chart function leaves exactly the first k-1 charts      *)
(* written by it, in an existing results/.                                 *)
(***************************************************************************)
C10_Sequential ==
  /\ Len(figures) <= 1
  /\ Len(saved) <= 4
  /\ saved = FirstFiles(Len(saved))
  /\ {f \in FileNames : resultsDir.files[f].present /\ resultsDir.files[f].by = run}
       = {saved[k] : k \in 1..Len(saved)}
  /\ pc \in Plotting =>
       /\ chart \in 1..4
       /\ Len(saved) = (IF pc = "close" THEN chart ELSE chart - 1)
       /\ Len(figures) = (IF pc = "figure" THEN 0 ELSE 1)
  /\ pc \in {"main", "exists", "read_csv", "split", "makedirs"} =>
       figures = <<>> /\ saved = <<>>
  /\ HasSplit =>
       /\ inc_enabled = Select(data, "INC", 1)
       /\ traditional = Select(data, "INC", 0)
  /\ (RaisedAt("plot") \/ RaisedAt("ticks")) =>
       /\ resultsDir.exists
       /\ saved = FirstFiles(chart - 1)
  /\ Succeeded => figures = <<>> /\ saved = FourFiles

C10_Witness ==
  /\ RaisedAt("plot")
  /\ chart = 3
  /\ saved = <<"TimingCost.png", "BandwidthUsage_Msg.png">>
  /\ ~resultsDir.files["BandwidthUsage_Byte.png"].present

====
